---- MODULE Spec2Model ----
(***************************************************************************)
(* SOCKS VPN Menu (src/main.go): the connection lifecycle controller.      *)
(*                                                                         *)
(* The program is a set of goroutines that share app.config and the        *)
(* disconnect menu item and that act on the operating system only through  *)
(* external commands (networksetup, pkill, pgrep, autossh, lsof).  One     *)
(* step of the model is one external command (or one probe, or one         *)
(* publication to the tray); goroutines interleave between steps.          *)
(***************************************************************************)
EXTENDS Integers, Sequences, FiniteSets, Bags, TLC

(* ------------------------------------------------------------------ *)
(* Bounds and program constants                                        *)
(* ------------------------------------------------------------------ *)

\* at most this many autossh processes are alive at once (spawn is refused
\* by the model beyond it)
MaxProcs == 2

\* at most this many user operations (clicks on a connect item or on the
\* disconnect item) are started in one behaviour
MaxClicks == 2

\* the configuration file is modified at most this many times in one
\* behaviour (its modification time goes from 1 to MaxModTime)
MaxModTime == 3

\* main.go:133  for i := 0; i < 20; i++
PollLimit == 20

\* main.go:276 / :282 / :285  loadConfig defaults
DefaultPort == 1234
DefaultAliveInterval == 10
DefaultAliveCountMax == 3

DefaultPath == "/opt/homebrew/bin/autossh"
DefaultInterface == "Wi-Fi"
UserPath == "/usr/local/bin/autossh"
UserInterface == "Ethernet"

Interfaces == {DefaultInterface, UserInterface}

(* ------------------------------------------------------------------ *)
(* Configuration (type Config, ServerOptions, Command)                 *)
(* ------------------------------------------------------------------ *)

Command(name, server) == [Name |-> name, Description |-> name, Server |-> server]

Office == Command("office", "office.example.com")
Home == Command("home", "home.example.com")

Names == {"office", "home"}

\* what json.Unmarshal leaves in a Config: absent fields are "" or 0
RawConfig(path, port, iface, interval, countMax, commands) ==
    [AutoSSHPath   |-> path,
     LocalPort     |-> port,
     Interface     |-> iface,
     ServerOptions |-> [ServerAliveInterval |-> interval,
                        ServerAliveCountMax |-> countMax],
     Commands      |-> commands]

\* contents ~/.vpn.json may have: readable says whether ReadFile and
\* Unmarshal both succeed, raw is the unmarshalled Config
FileContents ==
    { [readable |-> TRUE,
       raw |-> RawConfig("", 0, "", 0, 0, <<Office, Home>>)],
      [readable |-> TRUE,
       raw |-> RawConfig(UserPath, 1080, UserInterface, 30, 5, <<Office>>)],
      [readable |-> FALSE,
       raw |-> RawConfig("", 0, "", 0, 0, <<>>)] }

\* every way the five optional fields can be present or absent in a
\* readable file, three files with a value out of range, and a file that
\* cannot be read or parsed
AllFiles ==
    { [readable |-> TRUE,
       raw |-> RawConfig(path, port, iface, interval, countMax, <<Office>>)] :
        path \in {"", UserPath}, port \in {0, 1080}, iface \in {"", UserInterface},
        interval \in {0, 30}, countMax \in {0, 5} }
    \cup
    { [readable |-> TRUE, raw |-> RawConfig("", 70000, "", 0, 0, <<Office>>)],
      [readable |-> TRUE, raw |-> RawConfig("", -1, "", 0, 0, <<Office>>)],
      [readable |-> TRUE, raw |-> RawConfig("", 0, "", -5, 0, <<Office>>)],
      [readable |-> FALSE, raw |-> RawConfig("", 0, "", 0, 0, <<>>)] }

\* the nil *Config
NilConfig == [nil |-> TRUE]

\* faulty variant of loadConfig: the defaults are applied only to a file
\* that gives none of the optional fields
loadConfigAllOrNothing(file) ==
    IF ~file.readable
    THEN [err |-> TRUE, config |-> NilConfig]
    ELSE [err |-> FALSE,
          config |->
            IF /\ file.raw.AutoSSHPath = "" /\ file.raw.LocalPort = 0
               /\ file.raw.Interface = ""
               /\ file.raw.ServerOptions.ServerAliveInterval = 0
               /\ file.raw.ServerOptions.ServerAliveCountMax = 0
            THEN RawConfig(DefaultPath, DefaultPort, DefaultInterface,
                           DefaultAliveInterval, DefaultAliveCountMax,
                           file.raw.Commands)
            ELSE file.raw]

\* loadConfig, main.go:254-289
loadConfig(file) ==
    IF ~file.readable
    THEN [err |-> TRUE, config |-> NilConfig]
    ELSE [err |-> FALSE,
          config |->
            [AutoSSHPath |-> IF file.raw.AutoSSHPath = ""
                             THEN DefaultPath ELSE file.raw.AutoSSHPath,
             LocalPort   |-> IF file.raw.LocalPort = 0
                             THEN DefaultPort ELSE file.raw.LocalPort,
             Interface   |-> IF file.raw.Interface = ""
                             THEN DefaultInterface ELSE file.raw.Interface,
             ServerOptions |->
               [ServerAliveInterval |->
                    IF file.raw.ServerOptions.ServerAliveInterval = 0
                    THEN DefaultAliveInterval
                    ELSE file.raw.ServerOptions.ServerAliveInterval,
                ServerAliveCountMax |->
                    IF file.raw.ServerOptions.ServerAliveCountMax = 0
                    THEN DefaultAliveCountMax
                    ELSE file.raw.ServerOptions.ServerAliveCountMax],
             Commands |-> file.raw.Commands]]

\* main, main.go:46-61: the configuration the application starts with
StartupConfig(file) ==
    IF loadConfig(file).err
    THEN RawConfig(DefaultPath, DefaultPort, DefaultInterface, 0, 0, <<>>)
    ELSE loadConfig(file).config

(* ------------------------------------------------------------------ *)
(* State                                                               *)
(* ------------------------------------------------------------------ *)

\* the goroutines that run connectVPN and disconnectVPN: one per connect
\* menu item (main.go:92), the disconnect item's (main.go:116), and "quit",
\* which runs the exit hook onExit after systray.Quit (main.go:81-84, 164-167)
Handlers == Names \cup {"disc", "quit"}

VARIABLES
    config,       \* app.config
    menuItems,    \* names of the connect items buildMenu created
    discEnabled,  \* app.disconnectItem is enabled
    status,       \* what the tray shows: TRUE = connected icon
    procs,        \* the autossh processes alive in the OS, a bag of [server, st]
    proxy,        \* per network service: 0 = SOCKS proxy off, else its port
    pc,           \* per handler goroutine: where it stands
    target,       \* per connect goroutine: targetCommand.Server
    polls,        \* the disconnect goroutine's loop counter i
    res,          \* per handler: what its connectVPN/disconnectVPN call returned
    trace,        \* history, serial runs only: the commands the handler's current call has issued
    serial,       \* TRUE: the user starts an operation only when none is running (fixed)
    last,         \* history, serial runs only: the last operation that finished
    clicks,       \* history: the number of operations started so far
    faulted,      \* history: some external command has failed to run
    probe,        \* history, when recorded: the ticker's last probe, its inputs and result
    loaded,       \* history, when recorded: the last loadConfig call, its file and its caller
    wpc,          \* the goroutine running monitorConfigFile: where it stands
    modTime,      \* the modification time of ~/.vpn.json (0: the file cannot be stat'ed)
    lastModTime,  \* monitorConfigFile's lastModTime (0: the zero time.Time)
    wreloads      \* history: reloadConfiguration calls made by the running watcher

\* the state of the configuration-file watcher
watch == <<wpc, modTime, lastModTime, wreloads>>

vars == <<config, menuItems, discEnabled, status, procs, proxy,
          pc, target, polls, res, trace, serial, last, clicks, faulted,
          probe, loaded, wpc, modTime, lastModTime, wreloads>>

\* the value of a history variable that is not recorded in this run
NotRecorded == [recorded |-> FALSE]

\* one command a call has issued: its outcome, and of its arguments the
\* network service, the port and the server ("" and 0 when it has none)
Ev(cmd, out, iface, port, server) ==
    [cmd |-> cmd, out |-> out, iface |-> iface, port |-> port, server |-> server]

Record(t, ev) == IF serial THEN Append(trace[t], ev) ELSE trace[t]

Outcome(ok) == IF ok THEN "ok" ELSE "fail"

\* no command of the call failed to run
Clean(tr) == \A i \in 1..Len(tr) : tr[i].out # "fail"

\* the network service the call's proxy disable was issued for
DisabledIface(tr) ==
    IF \E i \in 1..Len(tr) : tr[i].cmd = "proxy_off"
    THEN tr[CHOOSE i \in 1..Len(tr) : tr[i].cmd = "proxy_off"].iface
    ELSE ""

NoOperation ==
    [op |-> "none", name |-> "", res |-> "none", clean |-> FALSE, iface |-> "",
     procs |-> EmptyBag, proxy |-> [i \in Interfaces |-> 0]]

Finished(op, name, t) ==
    IF serial
    THEN [op |-> op, name |-> name, res |-> res[t], clean |-> Clean(trace[t]),
          iface |-> DisabledIface(trace[t]), procs |-> procs, proxy |-> proxy]
    ELSE last

AllIdle == \A h \in Handlers : pc[h] = "idle"

(* ------------------------------------------------------------------ *)
(* ConnectionProbe: isVPNConnected, main.go:291-338                    *)
(* ------------------------------------------------------------------ *)

LsofHeader == [COMMAND |-> "COMMAND", USER |-> "USER"]

\* strings.Contains(strings.ToLower(column), "ssh") for the columns used here
ContainsSSH(word) == word \in {"ssh", "autossh", "sshd", "sshuser"}

\* strings.Contains(lower, "autossh") || strings.Contains(lower, "ssh")
\* on a whole line, main.go:318-319
LineMatches(ln) == ContainsSSH(ln.COMMAND) \/ ContainsSSH(ln.USER)

\* what lsof -nP -iTCP:<port> -sTCP:LISTEN may print; <<>> is no output or
\* a failed run
LsofOutputs ==
    { <<>>,
      <<LsofHeader, [COMMAND |-> "ssh", USER |-> "alice"]>>,
      <<LsofHeader, [COMMAND |-> "nginx", USER |-> "alice"]>>,
      <<LsofHeader, [COMMAND |-> "nginx", USER |-> "sshuser"]>> }

\* the outcomes of the three queries of one probe: whether each pgrep ran,
\* and what lsof printed
ProbeInputs == [pgrepf : BOOLEAN, pgrep : BOOLEAN, lsof : LsofOutputs]

isVPNConnected(ps, cfg, q) ==
    IF q.pgrepf /\ ps # EmptyBag THEN TRUE
    ELSE IF q.pgrep /\ ps # EmptyBag THEN TRUE
    ELSE IF cfg.LocalPort > 0 /\ q.lsof # <<>>
         THEN \E i \in 2..Len(q.lsof) : LineMatches(q.lsof[i])
         ELSE FALSE

\* what one probe may answer in a given state of the OS
ProbeResults(ps, cfg) == {isVPNConnected(ps, cfg, q) : q \in ProbeInputs}

\* one probe as the history keeps it: the outcomes q of its queries, the
\* processes and the configured port it ran against, and its answer
Probed(ps, cfg, q) ==
    [recorded |-> TRUE, q |-> q, ps |-> ps, port |-> cfg.LocalPort,
     result |-> isVPNConnected(ps, cfg, q)]

(* ------------------------------------------------------------------ *)
(* Initial state: main and onReady have run, main.go:46-79, 86-115     *)
(* ------------------------------------------------------------------ *)

InitWith(ser) ==
    \E file \in FileContents :
        /\ config = StartupConfig(file)
        /\ menuItems = {config.Commands[i].Name : i \in 1..Len(config.Commands)}
        /\ procs = EmptyBag
        /\ proxy = [i \in Interfaces |-> 0]
        /\ status \in ProbeResults(EmptyBag, config)
        /\ discEnabled = status
        /\ probe = NotRecorded
        /\ pc = [t \in Handlers |-> "idle"]
        /\ target = [n \in Names |-> ""]
        /\ polls = 0
        /\ res = [t \in Handlers |-> "none"]
        /\ trace = [t \in Handlers |-> <<>>]
        /\ serial = ser
        /\ last = NoOperation
        /\ clicks = 0
        /\ faulted = FALSE
        /\ loaded = NotRecorded
        /\ wpc = "off"
        /\ modTime = 1
        /\ lastModTime = 0
        /\ wreloads = 0

\* every handler goroutine runs whenever it is clicked
Init == InitWith(FALSE)

\* the user starts an operation only when the previous one has finished
SeqInit == InitWith(TRUE)

(* ------------------------------------------------------------------ *)
(* Control flow of connectVPN and disconnectVPN                        *)
(* ------------------------------------------------------------------ *)

\* connectVPN, main.go:341-351: the first command named commandName
resolve(cfg, commandName) ==
    LET hits == {i \in 1..Len(cfg.Commands) : cfg.Commands[i].Name = commandName}
    IN  IF hits = {}
        THEN [found |-> FALSE, server |-> ""]
        ELSE [found |-> TRUE,
              server |-> cfg.Commands[CHOOSE i \in hits : \A j \in hits : i <= j].Server]

\* faulty variants of afterResolve: an unknown name is not rejected;
\* the disconnect is skipped
afterResolveIgnoreMissing(found) == "d_proxy"
afterResolveSkipDisconnect(found) == IF found THEN "c_spawn" ELSE "ret_notfound"

\* main.go:349-354: unknown name returns, known name disconnects first
afterResolve(found) == IF found THEN "d_proxy" ELSE "ret_notfound"

\* faulty variant of afterProxyOff: a failed proxy disable ends disconnectVPN
afterProxyOffFatal(ok) == IF ok THEN "d_pkill" ELSE "return"

\* main.go:381-387: a failed proxy disable is logged, pkill follows
afterProxyOff(ok) == "d_pkill"

\* faulty variant of afterPkill: no existence check, no escalation
afterPkillNoEscalation(out) == "return"

\* main.go:387-398: exit status 1 (no process matched) returns nil at once,
\* any other outcome goes on to the pgrep check
afterPkill(out) == IF out = "nomatch" THEN "return" ELSE "d_pgrep"

\* faulty variants of afterPgrep: SIGKILL is never sent; SIGKILL is always sent
afterPgrepNever(out) == "return"
afterPgrepAlways(out) == "d_kill9"

\* main.go:401-412: SIGKILL only when pgrep still finds autossh
afterPgrep(out) == IF out = "found" THEN "d_kill9" ELSE "return"

\* main.go:405-412: whatever pkill -9 did, disconnectVPN returns
afterKill9(out) == "return"

\* main.go:392, 412: every return of disconnectVPN is "return nil"
disconnectResult(tr) == "nil"

\* faulty variant of afterSpawn: the proxy is set whatever autossh did
afterSpawnAlwaysProxy(ok) == "c_proxy"

\* main.go:365-368
afterSpawn(ok) == IF ok THEN "c_proxy" ELSE "ret_spawnerr"

\* faulty variant of afterProxyOn: a failed proxy enable kills the tunnel again
afterProxyOnRollback(ok) == IF ok THEN "ret_nil" ELSE "d_pkill"

\* main.go:371-376
afterProxyOn(ok) == IF ok THEN "ret_nil" ELSE "ret_proxyerr"

\* the error a "ret_..." label returns from connectVPN
ConnectError(label) ==
    CASE label = "ret_nil" -> "nil"
      [] label = "ret_notfound" -> "notfound"
      [] label = "ret_spawnerr" -> "spawnerr"
      [] label = "ret_proxyerr" -> "proxyerr"

IsConnectReturn(label) ==
    label \in {"ret_nil", "ret_notfound", "ret_spawnerr", "ret_proxyerr"}

\* where handler t stands after label, tr being the trace of its call:
\*  - connectVPN has returned to the item's goroutine, main.go:95
\*  - disconnectVPN has returned into connectVPN, main.go:354 (result dropped)
\*  - disconnectVPN has returned to the disconnect goroutine, main.go:123
Goto(t, label, tr) ==
    IF IsConnectReturn(label)
    THEN /\ res' = [res EXCEPT ![t] = ConnectError(label)]
         /\ pc' = [pc EXCEPT ![t] = "c_done"]
    ELSE IF label # "return"
    THEN /\ pc' = [pc EXCEPT ![t] = label]
         /\ UNCHANGED res
    ELSE IF t \in Names
    THEN /\ pc' = [pc EXCEPT ![t] = "c_spawn"]
         /\ UNCHANGED res
    ELSE /\ res' = [res EXCEPT ![t] = disconnectResult(tr)]
         /\ pc' = [pc EXCEPT ![t] = "d_done"]

(* ------------------------------------------------------------------ *)
(* Effects of the external commands on the operating system            *)
(* ------------------------------------------------------------------ *)

\* networksetup -setsocksfirewallproxystate <iface> off, main.go:381
ProxyOff(px, iface, ok) == IF ok THEN [px EXCEPT ![iface] = 0] ELSE px

\* networksetup -setsocksfirewallproxy <iface> 127.0.0.1 <port>, main.go:371
ProxyOn(px, iface, port, ok) == IF ok THEN [px EXCEPT ![iface] = port] ELSE px

\* pkill autossh, main.go:387-398: "fail" when pkill could not run or ended
\* with another status, "nomatch" (exit status 1) when no autossh exists,
\* else every autossh receives SIGTERM
PkillOutcome(ps, ok) ==
    IF ~ok THEN "fail" ELSE IF ps = EmptyBag THEN "nomatch" ELSE "ok"

\* SIGTERM is handled by autossh, which exits some time later
Sigterm(ps) ==
    LET n(s) == CopiesIn([server |-> s, st |-> "run"], ps)
                + CopiesIn([server |-> s, st |-> "term"], ps)
    IN  [k \in {[server |-> p.server, st |-> "term"] : p \in BagToSet(ps)}
            |-> n(k.server)]

\* pgrep autossh, main.go:401-402: exit status 0 ("found") iff it ran and
\* an autossh exists; "fail" when pgrep could not run
PgrepOutcome(ps, ok) ==
    IF ~ok THEN "fail" ELSE IF ps = EmptyBag THEN "none" ELSE "found"

\* pkill -9 autossh, main.go:405: SIGKILL cannot be handled, the processes
\* it is sent to are gone
Sigkill(ps, ok) == IF ok THEN EmptyBag ELSE ps

\* autossh -f -M 0 -o ... -D localhost:<port> -N <server>, main.go:357-368
Launch(ps, server, ok) ==
    IF ok THEN ps (+) SetToBag({[server |-> server, st |-> "run"]}) ELSE ps

(* ------------------------------------------------------------------ *)
(* The connect items' goroutines, main.go:92-104, and connectVPN       *)
(* ------------------------------------------------------------------ *)

\* a click on the item of commandName n: connectVPN up to its first command
ConnectClick(n) ==
    /\ n \in menuItems
    /\ pc[n] = "idle"
    /\ serial => AllIdle
    /\ target' = [target EXCEPT ![n] = resolve(config, n).server]
    /\ trace' = [trace EXCEPT ![n] = <<>>]
    /\ Goto(n, afterResolve(resolve(config, n).found), <<>>)
    /\ clicks < MaxClicks
    /\ clicks' = clicks + 1
    /\ UNCHANGED <<config, menuItems, discEnabled, status, procs, proxy, polls,
                   serial, last, faulted>>
    /\ UNCHANGED <<probe, loaded, watch>>

\* main.go:365-368
Spawn(n) ==
    /\ n \in Names
    /\ pc[n] = "c_spawn"
    /\ \E ok \in BOOLEAN :
         /\ ok => BagCardinality(procs) < MaxProcs
         /\ procs' = Launch(procs, target[n], ok)
         /\ trace' = [trace EXCEPT ![n] =
                Record(n, Ev("spawn", Outcome(ok), "", config.LocalPort, target[n]))]
         /\ faulted' = (faulted \/ ~ok)
         /\ Goto(n, afterSpawn(ok), trace'[n])
    /\ UNCHANGED <<config, menuItems, discEnabled, status, proxy, target, polls,
                   serial, last, clicks>>
    /\ UNCHANGED <<probe, loaded, watch>>

\* main.go:370-376
EnableProxy(n) ==
    /\ n \in Names
    /\ pc[n] = "c_proxy"
    /\ \E ok \in BOOLEAN :
         /\ proxy' = ProxyOn(proxy, config.Interface, config.LocalPort, ok)
         /\ trace' = [trace EXCEPT ![n] =
                Record(n, Ev("proxy_on", Outcome(ok), config.Interface, config.LocalPort, ""))]
         /\ faulted' = (faulted \/ ~ok)
         /\ Goto(n, afterProxyOn(ok), trace'[n])
    /\ UNCHANGED <<config, menuItems, discEnabled, status, procs, target, polls,
                   serial, last, clicks>>
    /\ UNCHANGED <<probe, loaded, watch>>

\* main.go:96-102: the result is logged; after a success updateIcon follows
ConnectDone(n) ==
    /\ n \in Names
    /\ pc[n] = "c_done"
    /\ pc' = [pc EXCEPT ![n] = IF res[n] = "nil" THEN "u_icon" ELSE "idle"]
    /\ res' = [res EXCEPT ![n] = "none"]
    /\ trace' = [trace EXCEPT ![n] = <<>>]
    /\ target' = [target EXCEPT ![n] = ""]
    /\ last' = Finished("connect", n, n)
    /\ UNCHANGED <<config, menuItems, discEnabled, status, procs, proxy,
                   polls, serial, clicks, faulted>>
    /\ UNCHANGED <<probe, loaded, watch>>

(* ------------------------------------------------------------------ *)
(* disconnectVPN, main.go:379-413, run by handler t                    *)
(* ------------------------------------------------------------------ *)

DisableProxy(t) ==
    /\ pc[t] = "d_proxy"
    /\ \E ok \in BOOLEAN :
         /\ proxy' = ProxyOff(proxy, config.Interface, ok)
         /\ trace' = [trace EXCEPT ![t] =
                Record(t, Ev("proxy_off", Outcome(ok), config.Interface, 0, ""))]
         /\ faulted' = (faulted \/ ~ok)
         /\ Goto(t, afterProxyOff(ok), trace'[t])
    /\ UNCHANGED <<config, menuItems, discEnabled, status, procs, target, polls,
                   serial, last, clicks>>
    /\ UNCHANGED <<probe, loaded, watch>>

Pkill(t) ==
    /\ pc[t] = "d_pkill"
    /\ \E ok \in BOOLEAN :
         /\ procs' = IF PkillOutcome(procs, ok) = "ok" THEN Sigterm(procs) ELSE procs
         /\ trace' = [trace EXCEPT ![t] =
                Record(t, Ev("pkill", PkillOutcome(procs, ok), "", 0, ""))]
         /\ faulted' = (faulted \/ ~ok)
         /\ Goto(t, afterPkill(PkillOutcome(procs, ok)), trace'[t])
    /\ UNCHANGED <<config, menuItems, discEnabled, status, proxy, target, polls,
                   serial, last, clicks>>
    /\ UNCHANGED <<probe, loaded, watch>>

Pgrep(t) ==
    /\ pc[t] = "d_pgrep"
    /\ \E ok \in BOOLEAN :
         /\ trace' = [trace EXCEPT ![t] =
                Record(t, Ev("pgrep", PgrepOutcome(procs, ok), "", 0, ""))]
         /\ faulted' = (faulted \/ ~ok)
         /\ Goto(t, afterPgrep(PgrepOutcome(procs, ok)), trace'[t])
    /\ UNCHANGED <<config, menuItems, discEnabled, status, procs, proxy, target,
                   polls, serial, last, clicks>>
    /\ UNCHANGED <<probe, loaded, watch>>

Kill9(t) ==
    /\ pc[t] = "d_kill9"
    /\ \E ok \in BOOLEAN :
         /\ procs' = Sigkill(procs, ok)
         /\ trace' = [trace EXCEPT ![t] =
                Record(t, Ev("pkill9", PkillOutcome(procs, ok), "", 0, ""))]
         /\ faulted' = (faulted \/ ~ok)
         /\ Goto(t, afterKill9(PkillOutcome(procs, ok)), trace'[t])
    /\ UNCHANGED <<config, menuItems, discEnabled, status, proxy, target, polls,
                   serial, last, clicks>>
    /\ UNCHANGED <<probe, loaded, watch>>

(* ------------------------------------------------------------------ *)
(* The disconnect item's goroutine, main.go:116-144                    *)
(* ------------------------------------------------------------------ *)

\* main.go:118-123: a disabled item delivers no click
DisconnectClick ==
    /\ pc["disc"] = "idle"
    /\ discEnabled
    /\ serial => AllIdle
    /\ discEnabled' = FALSE
    /\ pc' = [pc EXCEPT !["disc"] = "d_proxy"]
    /\ trace' = [trace EXCEPT !["disc"] = <<>>]
    /\ clicks < MaxClicks
    /\ clicks' = clicks + 1
    /\ UNCHANGED <<config, menuItems, status, procs, proxy, target, polls, res,
                   serial, last, faulted>>
    /\ UNCHANGED <<probe, loaded, watch>>

\* main.go:124-133: on an error the item is enabled again, else the wait
\* loop starts
DisconnectDone ==
    /\ pc["disc"] = "d_done"
    /\ IF res["disc"] # "nil"
       THEN /\ discEnabled' = TRUE
            /\ pc' = [pc EXCEPT !["disc"] = "idle"]
            /\ UNCHANGED polls
       ELSE /\ pc' = [pc EXCEPT !["disc"] = "poll"]
            /\ polls' = 0
            /\ UNCHANGED discEnabled
    /\ res' = [res EXCEPT !["disc"] = "none"]
    /\ trace' = [trace EXCEPT !["disc"] = <<>>]
    /\ last' = Finished("disconnect", "", "disc")
    /\ UNCHANGED <<config, menuItems, status, procs, proxy, target, serial, clicks, faulted>>
    /\ UNCHANGED <<probe, loaded, watch>>

\* faulty variant of afterPoll: the loop has no bound
afterPollUnbounded(isConnected, i) == IF ~isConnected THEN "u_icon" ELSE "poll"

\* main.go:133-138: where the loop stands after the probe of iteration i:
\* break when not connected, else sleep, i++ and test i < 20
afterPoll(isConnected, i) ==
    IF ~isConnected THEN "u_icon"
    ELSE IF i + 1 < PollLimit THEN "poll" ELSE "u_icon"

\* main.go:133-138: one iteration of the wait loop
Poll ==
    /\ pc["disc"] = "poll"
    /\ \E isConnected \in ProbeResults(procs, config) :
         /\ polls' = IF isConnected THEN polls + 1 ELSE polls
         /\ pc' = [pc EXCEPT !["disc"] = afterPoll(isConnected, polls)]
    /\ UNCHANGED <<config, menuItems, discEnabled, status, procs, proxy, target,
                   res, trace, serial, last, clicks, faulted>>
    /\ UNCHANGED <<probe, loaded, watch>>

(* ------------------------------------------------------------------ *)
(* updateIcon, main.go:170-252, and the ticker, main.go:72-78          *)
(* ------------------------------------------------------------------ *)

\* faulty variant of Publish: the result of the probe is dropped
PublishNothing(isConnected) == UNCHANGED <<status, discEnabled>>

\* the tray shows the probe's result and the disconnect item follows it
Publish(isConnected) ==
    /\ status' = isConnected
    /\ discEnabled' = isConnected

\* updateIcon, main.go:170-252: one probe, its result published; the
\* history keeps the probe when it is recorded
updateIcon ==
    IF probe = NotRecorded
    THEN /\ \E isConnected \in ProbeResults(procs, config) : Publish(isConnected)
         /\ UNCHANGED probe
    ELSE \E q \in ProbeInputs :
           /\ Publish(isVPNConnected(procs, config, q))
           /\ probe' = Probed(procs, config, q)

\* main.go:100, 141: updateIcon at the end of a handler
UpdateIcon(t) ==
    /\ pc[t] = "u_icon"
    /\ updateIcon
    /\ pc' = [pc EXCEPT ![t] = "idle"]
    /\ polls' = IF t = "disc" THEN 0 ELSE polls
    /\ UNCHANGED <<config, menuItems, procs, proxy, target, res, trace,
                   serial, last, clicks, faulted>>
    /\ UNCHANGED <<loaded, watch>>

\* main.go:75-77: updateIcon every five seconds
Tick ==
    /\ updateIcon
    /\ UNCHANGED <<config, menuItems, procs, proxy, pc, target, polls, res, trace,
                   serial, last, clicks, faulted>>
    /\ UNCHANGED <<loaded, watch>>

(* ------------------------------------------------------------------ *)
(* Environment                                                         *)
(* ------------------------------------------------------------------ *)

\* an autossh that received SIGTERM exits
ProcExit ==
    /\ \E p \in BagToSet(procs) :
         /\ p.st = "term"
         /\ procs' = procs (-) SetToBag({p})
    /\ UNCHANGED <<config, menuItems, discEnabled, status, proxy, pc, target,
                   polls, res, trace, serial, last, clicks, faulted>>
    /\ UNCHANGED <<probe, loaded, watch>>

\* the files a load may find: the few of FileContents, or every file of
\* AllFiles in the runs that record the loads
FilesSeen == IF loaded = NotRecorded THEN FileContents ELSE AllFiles

\* one loadConfig call as the history keeps it: its caller, the file it
\* found, and the configuration that was active before it
Loaded(op, file, before) ==
    IF loaded = NotRecorded THEN loaded
    ELSE [recorded |-> TRUE, op |-> op, file |-> file, before |-> before]

\* faulty variant of reloadConfiguration: the result of loadConfig is stored
\* without looking at the error
reloadConfigurationUnchecked(cfg, file) == loadConfig(file).config

\* reloadConfiguration, main.go:566-577: app.config after it
reloadConfiguration(cfg, file) ==
    IF loadConfig(file).err THEN cfg ELSE loadConfig(file).config

\* reloadConfiguration called when a terminal editor has exited,
\* main.go:489-492, on whatever the file holds then
Reload ==
    /\ \E file \in FilesSeen :
         /\ config' = reloadConfiguration(config, file)
         /\ loaded' = Loaded("reload", file, config)
    /\ UNCHANGED <<menuItems, discEnabled, status, procs, proxy, pc, target,
                   polls, res, trace, serial, last, clicks, faulted>>
    /\ UNCHANGED <<probe, watch>>

Next ==
    \/ \E n \in Names : ConnectClick(n)
    \/ \E n \in Names : Spawn(n)
    \/ \E n \in Names : EnableProxy(n)
    \/ \E n \in Names : ConnectDone(n)
    \/ \E t \in Handlers : DisableProxy(t)
    \/ \E t \in Handlers : Pkill(t)
    \/ \E t \in Handlers : Pgrep(t)
    \/ \E t \in Handlers : Kill9(t)
    \/ DisconnectClick
    \/ DisconnectDone
    \/ Poll
    \/ \E t \in Handlers : UpdateIcon(t)
    \/ Tick
    \/ ProcExit
    \/ Reload

\* the program: every goroutine runs whenever it can
Spec == Init /\ [][Next]_vars

\* the same program with the user's operations one after the other
SeqSpec == SeqInit /\ [][Next]_vars

\* the disconnect goroutine's wait loop and its final updateIcon go on
\* (main.go:133-141): probes and tray calls return
Fairness ==
    /\ WF_vars(Poll)
    /\ WF_vars(UpdateIcon("disc"))

\* the program with the disconnect goroutine's wait going on
LiveSpec == Init /\ [][Next]_vars /\ Fairness

(* ------------------------------------------------------------------ *)
(* The ConnectionProbe on its own                                      *)
(* ------------------------------------------------------------------ *)

\* the autossh processes the application may find when it starts (left by
\* an earlier run) : none, a running one, one that is exiting
ProbeProcs ==
    { EmptyBag,
      SetToBag({[server |-> Office.Server, st |-> "run"]}),
      SetToBag({[server |-> Office.Server, st |-> "term"]}) }

\* onReady's first updateIcon, main.go:69-70, with its probe recorded
ProbeInit ==
    \E file \in FileContents, ps \in ProbeProcs, q \in ProbeInputs :
        /\ config = StartupConfig(file)
        /\ menuItems = {config.Commands[i].Name : i \in 1..Len(config.Commands)}
        /\ procs = ps
        /\ proxy = [i \in Interfaces |-> 0]
        /\ status = isVPNConnected(ps, config, q)
        /\ discEnabled = status
        /\ probe = Probed(ps, config, q)
        /\ pc = [t \in Handlers |-> "idle"]
        /\ target = [n \in Names |-> ""]
        /\ polls = 0
        /\ res = [t \in Handlers |-> "none"]
        /\ trace = [t \in Handlers |-> <<>>]
        /\ serial = FALSE
        /\ last = NoOperation
        /\ clicks = 0
        /\ faulted = FALSE
        /\ loaded = NotRecorded
        /\ wpc = "off"
        /\ modTime = 1
        /\ lastModTime = 0
        /\ wreloads = 0

ProbeNext ==
    \/ Tick
    \/ ProcExit
    \/ Reload

\* the ticker's probes, every one recorded, with no user operation
ProbeSpec == ProbeInit /\ [][ProbeNext]_vars

\* the ticker beside the disconnect item's goroutine
ReconcileNext ==
    \/ Tick
    \/ ProcExit
    \/ DisconnectClick
    \/ DisableProxy("disc")
    \/ Pkill("disc")
    \/ Pgrep("disc")
    \/ Kill9("disc")
    \/ DisconnectDone
    \/ Poll
    \/ UpdateIcon("disc")

\* the ticker fires again and again, main.go:73-77, and updateIcon returns
TickerFairness == WF_vars(Tick)

\* the ticker and the disconnect operation, every probe of updateIcon
\* recorded, the ticker going on
ReconcileSpec == ProbeInit /\ [][ReconcileNext]_vars /\ TickerFairness

(* ------------------------------------------------------------------ *)
(* The configuration store: loads, reloads and the file watcher,       *)
(* main.go:46-61, 486-496, 534-582                                     *)
(* ------------------------------------------------------------------ *)

\* main and onReady have run, main.go:46-79, with the load recorded
ConfigInit ==
    \E file \in AllFiles :
        /\ config = StartupConfig(file)
        /\ loaded = [recorded |-> TRUE, op |-> "load", file |-> file,
                     before |-> NilConfig]
        /\ menuItems = {config.Commands[i].Name : i \in 1..Len(config.Commands)}
        /\ procs = EmptyBag
        /\ proxy = [i \in Interfaces |-> 0]
        /\ status \in ProbeResults(EmptyBag, config)
        /\ discEnabled = status
        /\ probe = NotRecorded
        /\ pc = [t \in Handlers |-> "idle"]
        /\ target = [n \in Names |-> ""]
        /\ polls = 0
        /\ res = [t \in Handlers |-> "none"]
        /\ trace = [t \in Handlers |-> <<>>]
        /\ serial = FALSE
        /\ last = NoOperation
        /\ clicks = 0
        /\ faulted = FALSE
        /\ wpc = "off"
        /\ modTime = 1
        /\ lastModTime = 0
        /\ wreloads = 0

\* the editor (or anything else) writes ~/.vpn.json
Touch ==
    /\ modTime < MaxModTime
    /\ modTime' = modTime + 1
    /\ UNCHANGED <<config, menuItems, discEnabled, status, procs, proxy, pc, target,
                   polls, res, trace, serial, last, clicks, faulted>>
    /\ UNCHANGED <<probe, loaded, wpc, lastModTime, wreloads>>

\* editConfiguration has started a GUI editor, main.go:493-496, and
\* monitorConfigFile records the modification time, main.go:536-547; a
\* failed os.Stat leaves the zero time.  (The model runs one watcher at a
\* time; the next one starts when this one has returned.)
StartWatch ==
    /\ wpc # "watching"
    /\ wpc' = "watching"
    /\ \E ok \in BOOLEAN : lastModTime' = IF ok THEN modTime ELSE 0
    /\ wreloads' = 0
    /\ UNCHANGED <<config, menuItems, discEnabled, status, procs, proxy, pc, target,
                   polls, res, trace, serial, last, clicks, faulted>>
    /\ UNCHANGED <<probe, loaded, modTime>>

\* faulty variant of afterStat: the watcher goes on after a reload
afterStatGoesOn(ok, mod, lastMod) == "watching"

\* main.go:552-557: after os.Stat in a tick of the watcher: reload and
\* return when the file's ModTime is after lastModTime, else go on
afterStat(ok, mod, lastMod) ==
    IF ok /\ mod > lastMod THEN "changed" ELSE "watching"

\* main.go:551-558: one tick of the watcher
WatchPoll ==
    /\ wpc = "watching"
    /\ \E ok \in BOOLEAN :
         IF ok /\ modTime > lastModTime
         THEN /\ \E file \in FilesSeen :
                   /\ config' = reloadConfiguration(config, file)
                   /\ loaded' = Loaded("reload", file, config)
              /\ wreloads' = wreloads + 1
              /\ wpc' = afterStat(ok, modTime, lastModTime)
         ELSE /\ wpc' = afterStat(ok, modTime, lastModTime)
              /\ UNCHANGED <<config, loaded, wreloads>>
    /\ UNCHANGED <<menuItems, discEnabled, status, procs, proxy, pc, target,
                   polls, res, trace, serial, last, clicks, faulted>>
    /\ UNCHANGED <<probe, modTime, lastModTime>>

\* main.go:547, 559-561: the five minutes are over
WatchTimeout ==
    /\ wpc = "watching"
    /\ wpc' = "timeout"
    /\ UNCHANGED <<config, menuItems, discEnabled, status, procs, proxy, pc, target,
                   polls, res, trace, serial, last, clicks, faulted>>
    /\ UNCHANGED <<probe, loaded, modTime, lastModTime, wreloads>>

ConfigNext ==
    \/ Reload
    \/ Touch
    \/ StartWatch
    \/ WatchPoll
    \/ WatchTimeout

\* time.After fires, main.go:547, and the select takes it
WatchFairness == WF_vars(WatchTimeout)

\* the configuration store with every load recorded
ConfigSpec == ConfigInit /\ [][ConfigNext]_vars /\ WatchFairness

(* ------------------------------------------------------------------ *)
(* Quit: the quit item's goroutine and the exit hook, main.go:81-84,   *)
(* 162-167, beside the connect items' goroutines                       *)
(* ------------------------------------------------------------------ *)

\* main has not returned yet: the goroutines of the process still run
Running == pc["quit"] # "exited"

\* a click on Quit, main.go:164-166: systray.Quit() ends the tray loop, which
\* calls the exit hook; onExit is at the first command of disconnectVPN
QuitClick ==
    /\ pc["quit"] = "idle"
    /\ pc' = [pc EXCEPT !["quit"] = "d_proxy"]
    /\ trace' = [trace EXCEPT !["quit"] = <<>>]
    /\ UNCHANGED <<config, menuItems, discEnabled, status, procs, proxy, target,
                   polls, res, serial, last, clicks, faulted>>
    /\ UNCHANGED <<probe, loaded, watch>>

\* main.go:83-84, 63-64: disconnectVPN has returned, its result is dropped;
\* onExit returns, systray.Run returns, main returns and the process ends
\* with every goroutine it still has
QuitDone ==
    /\ pc["quit"] = "d_done"
    /\ pc' = [pc EXCEPT !["quit"] = "exited"]
    /\ res' = [res EXCEPT !["quit"] = "none"]
    /\ trace' = [trace EXCEPT !["quit"] = <<>>]
    /\ UNCHANGED <<config, menuItems, discEnabled, status, procs, proxy, target,
                   polls, serial, last, clicks, faulted>>
    /\ UNCHANGED <<probe, loaded, watch>>

\* the connect goroutines run until the process has ended; autossh, started
\* with -f, is a process of its own and goes on without the application
QuitNext ==
    \/ Running /\ \E n \in Names : ConnectClick(n)
    \/ Running /\ \E n \in Names : Spawn(n)
    \/ Running /\ \E n \in Names : EnableProxy(n)
    \/ Running /\ \E n \in Names : ConnectDone(n)
    \/ Running /\ \E n \in Names : UpdateIcon(n)
    \/ Running /\ \E t \in Names \cup {"quit"} : DisableProxy(t)
    \/ Running /\ \E t \in Names \cup {"quit"} : Pkill(t)
    \/ Running /\ \E t \in Names \cup {"quit"} : Pgrep(t)
    \/ Running /\ \E t \in Names \cup {"quit"} : Kill9(t)
    \/ QuitClick
    \/ QuitDone
    \/ ProcExit

\* the connect items and the Quit item, every goroutine running whenever it
\* can, with the configuration fixed
QuitSpec == Init /\ [][QuitNext]_vars

(* ------------------------------------------------------------------ *)
(* Properties                                                          *)
(* ------------------------------------------------------------------ *)

Tunnel(server) == [server |-> server, st |-> "run"]

\* the commands of disconnectVPN
IsKill(ev) == ev.cmd \in {"pkill", "pgrep", "pkill9"}

\* C1: under any interleaving of the user's clicks on connect items and on
\* the disconnect item, and with nothing but the controller starting
\* processes, at most one autossh process exists at any time.  Stated here
\* for the runs in which every external command has run successfully, which
\* the claim covers.
C1_AtMostOneTunnel == ~faulted => BagCardinality(procs) <= 1

\* C2: Connect(A) followed by Connect(B), one after the other, with the
\* commands of both running successfully: while Connect(B) runs there is
\* never more than one autossh process, so never the tunnel to A together
\* with the tunnel to B; from the spawn on the one process is the tunnel to
\* B's server; and Connect(B) ends with success.  (B is configured: the
\* call has not returned "not found".)
C2_ConnectAThenB ==
    \A n \in Names :
        ( /\ last.op = "connect" /\ last.name # n
          /\ last.res = "nil" /\ last.clean
          /\ pc[n] \notin {"idle", "u_icon"}
          /\ res[n] # "notfound"
          /\ Clean(trace[n]) )
        => /\ BagCardinality(procs) <= 1
           /\ pc[n] \in {"c_proxy", "c_done"} => procs = SetToBag({Tunnel(target[n])})
           /\ pc[n] = "c_done" => res[n] = "nil"

\* Connect(B) has just returned success after a finished Connect(A), it
\* has terminated the tunnel to A and its own tunnel is the only process
C2_Witness ==
    \E n \in Names :
        /\ last.op = "connect" /\ last.name # n /\ last.res = "nil" /\ last.clean
        /\ pc[n] = "c_done" /\ res[n] = "nil" /\ Clean(trace[n])
        /\ trace[n][2].cmd = "pkill" /\ trace[n][2].out = "ok"
        /\ procs = SetToBag({Tunnel(target[n])})

\* C3: a click that calls connectVPN with a name no command of the current
\* configuration has returns the "not found" error in that same step, which
\* changes neither the processes nor the proxy nor what the tray shows; no
\* command is issued for it, and the next step of the goroutine only logs.
C3_UnknownNameNoEffect ==
    [][\A n \in Names :
         /\ (pc[n] = "idle" /\ pc'[n] # "idle" /\ ~resolve(config, n).found)
              => /\ pc'[n] = "c_done" /\ res'[n] = "notfound"
                 /\ trace'[n] = <<>>
                 /\ UNCHANGED <<procs, proxy, status, discEnabled, config>>
         /\ (pc[n] = "c_done" /\ res[n] = "notfound" /\ pc'[n] # "c_done")
              => /\ pc'[n] = "idle"
                 /\ UNCHANGED <<procs, proxy, status, discEnabled, config>>
      ]_vars

\* connectVPN has returned "not found" while a tunnel is running and its
\* proxy is on
C3_Witness ==
    \E n \in menuItems :
        /\ pc[n] = "c_done" /\ res[n] = "notfound"
        /\ ~resolve(config, n).found
        /\ procs # EmptyBag
        /\ \E i \in Interfaces : proxy[i] # 0

\* tr is the command sequence of one whole run of disconnectVPN: the proxy
\* disable, pkill, and then nothing more (pkill matched nothing), or pgrep
\* that finds nothing, or pgrep that finds a process and pkill -9
DisconnectComplete(tr) ==
    /\ Len(tr) \in 2..4
    /\ tr[1].cmd = "proxy_off"
    /\ tr[2].cmd = "pkill"
    /\ Len(tr) = 2 <=> tr[2].out = "nomatch"
    /\ Len(tr) >= 3 => tr[3].cmd = "pgrep"
    /\ Len(tr) = 3 => tr[3].out # "found"
    /\ Len(tr) = 4 => tr[3].out = "found" /\ tr[4].cmd = "pkill9"

\* C4: in a connectVPN call for a known name the first command is the proxy
\* disable, whatever the state; the spawn is issued only after one whole run
\* of disconnectVPN (proxy disable, then the kill steps), and the proxy
\* enable only directly after a spawn that succeeded.  A call that is past
\* resolving and has returned has issued the spawn.
C4_ConnectOrder ==
    \A n \in Names :
        LET tr == trace[n] IN
        /\ pc[n] = "d_proxy" => tr = <<>>
        /\ tr # <<>> => tr[1].cmd = "proxy_off"
        /\ \A i \in 1..Len(tr) :
             /\ tr[i].cmd = "spawn" => DisconnectComplete(SubSeq(tr, 1, i - 1))
             /\ tr[i].cmd = "proxy_on" =>
                  i > 1 /\ tr[i-1].cmd = "spawn" /\ tr[i-1].out = "ok"
        /\ pc[n] = "c_spawn" => DisconnectComplete(tr)
        /\ pc[n] = "c_proxy" => tr[Len(tr)].cmd = "spawn" /\ tr[Len(tr)].out = "ok"
        /\ (pc[n] = "c_done" /\ res[n] # "notfound") =>
             \E i \in 1..Len(tr) : tr[i].cmd = "spawn"

\* a connectVPN call has returned success after all six commands: proxy
\* disable, pkill, pgrep that found the old tunnel, pkill -9, spawn, proxy
\* enable
C4_Witness ==
    \E n \in Names :
        /\ pc[n] = "c_done" /\ res[n] = "nil"
        /\ Len(trace[n]) = 6
        /\ trace[n][4].cmd = "pkill9"
        /\ trace[n][5].cmd = "spawn"
        /\ trace[n][6].cmd = "proxy_on"

\* C5: when the proxy enable of a connectVPN call fails, after a spawn that
\* succeeded, the call has returned the proxy error, the failed proxy enable
\* is the last command it issued (no kill, nothing else follows), and the
\* tunnel it spawned is still running; and the proxy error is returned in
\* this case only.
C5_ProxyFailureKeepsTunnel ==
    \A n \in Names :
        LET tr == trace[n] IN
        /\ \A i \in 1..Len(tr) :
             (tr[i].cmd = "proxy_on" /\ tr[i].out = "fail") =>
                /\ i = Len(tr)
                /\ tr[i-1].cmd = "spawn" /\ tr[i-1].out = "ok"
                /\ pc[n] = "c_done" /\ res[n] = "proxyerr"
                /\ CopiesIn(Tunnel(tr[i-1].server), procs) >= 1
        /\ (pc[n] = "c_done" /\ res[n] = "proxyerr") =>
             tr # <<>> /\ tr[Len(tr)].cmd = "proxy_on" /\ tr[Len(tr)].out = "fail"

\* connectVPN has returned the proxy error, its tunnel runs and the proxy of
\* the configured network service is off
C5_Witness ==
    \E n \in Names :
        /\ pc[n] = "c_done" /\ res[n] = "proxyerr"
        /\ trace[n][Len(trace[n])].cmd = "proxy_on"
        /\ trace[n][Len(trace[n])].out = "fail"
        /\ procs = SetToBag({Tunnel(target[n])})
        /\ proxy[config.Interface] = 0

\* C6 as stated: when the spawn of a connectVPN call fails, the proxy
\* settings after the call are what they were before the call.
C6_ProxyAsBefore ==
    \A n \in Names :
        (pc[n] = "c_done" /\ res[n] = "spawnerr") => proxy = last.proxy

\* C6, amended: when the spawn of a connectVPN call fails, the call has
\* returned the spawn error and has issued no proxy enable; its only proxy
\* command is the proxy disable of its disconnectVPN, so the proxy settings
\* after the call are those before the call with that disable applied if it
\* succeeded; and the spawn error is returned in this case only.
C6_SpawnFailure ==
    \A n \in Names :
        LET tr == trace[n] IN
        /\ \A i \in 1..Len(tr) :
             (tr[i].cmd = "spawn" /\ tr[i].out = "fail") =>
                /\ i = Len(tr)
                /\ pc[n] = "c_done" /\ res[n] = "spawnerr"
                /\ \A j \in 1..Len(tr) : tr[j].cmd # "proxy_on"
                /\ \A j \in 2..Len(tr) : tr[j].cmd # "proxy_off"
                /\ proxy = ProxyOff(last.proxy, tr[1].iface, tr[1].out = "ok")
        /\ (pc[n] = "c_done" /\ res[n] = "spawnerr") =>
             tr # <<>> /\ tr[Len(tr)].cmd = "spawn" /\ tr[Len(tr)].out = "fail"

\* connectVPN has returned the spawn error in a call made while the proxy
\* was on, and the proxy is off now
C6_Witness ==
    \E n \in Names :
        /\ pc[n] = "c_done" /\ res[n] = "spawnerr"
        /\ trace[n][Len(trace[n])].cmd = "spawn"
        /\ trace[n][Len(trace[n])].out = "fail"
        /\ trace[n][1].out = "ok"
        /\ last.proxy[trace[n][1].iface] # 0
        /\ proxy[trace[n][1].iface] = 0

\* C7: in every run of disconnectVPN (the disconnect item's and the one
\* inside connectVPN) the proxy disable is the first command, so it precedes
\* pkill, pgrep and pkill -9; and after the proxy disable, whether it
\* succeeded or failed, pkill is the next command.
C7_ProxyDisableFirst ==
    \A t \in Handlers :
        LET tr == trace[t] IN
        /\ \A i \in 1..Len(tr) :
             IsKill(tr[i]) => i > 1 /\ tr[1].cmd = "proxy_off"
        /\ \A i \in 1..Len(tr) :
             tr[i].cmd = "proxy_off" =>
                IF i = Len(tr) THEN pc[t] = "d_pkill" ELSE tr[i+1].cmd = "pkill"
        /\ pc[t] = "d_pkill" => Len(tr) = 1 /\ tr[1].cmd = "proxy_off"

\* the disconnect item's disconnectVPN has sent SIGTERM to a tunnel after
\* its proxy disable failed
C7_Witness ==
    /\ Len(trace["disc"]) >= 2
    /\ trace["disc"][1].cmd = "proxy_off" /\ trace["disc"][1].out = "fail"
    /\ trace["disc"][2].cmd = "pkill" /\ trace["disc"][2].out = "ok"

\* C8 as stated: disconnectVPN returns an error to the disconnect goroutine
\* exactly when its proxy disable failed; whatever pkill, pgrep and pkill -9
\* did, it returns success when the proxy disable succeeded.
C8_ProxyFailureSurfaced ==
    pc["disc"] = "d_done" =>
        (res["disc"] # "nil" <=> trace["disc"][1].out = "fail")

\* C9: every disconnectVPN call returns success; when pkill reports that no
\* process matched, the call ends there with success; a call whose commands
\* all ran leaves no autossh process and the proxy of the network service
\* off; and such a call made directly after another such call (for the same
\* network service) leaves the processes and the proxy settings exactly as
\* the first one left them.
C9_DisconnectIdempotent ==
    LET tr == trace["disc"] IN
    pc["disc"] = "d_done" =>
        /\ res["disc"] = "nil"
        /\ tr[2].out = "nomatch" => Len(tr) = 2
        /\ Clean(tr) => procs = EmptyBag /\ proxy[DisabledIface(tr)] = 0
        /\ ( /\ Clean(tr)
             /\ last.op = "disconnect" /\ last.clean
             /\ last.iface = DisabledIface(tr) )
           => procs = last.procs /\ proxy = last.proxy

\* a second disconnectVPN in a row has returned, both with every command
\* run, the second having found no process to kill
C9_Witness ==
    /\ pc["disc"] = "d_done" /\ res["disc"] = "nil"
    /\ Clean(trace["disc"])
    /\ trace["disc"][2].out = "nomatch"
    /\ last.op = "disconnect" /\ last.clean /\ last.res = "nil"
    /\ last.iface = DisabledIface(trace["disc"])

\* C10: in every run of disconnectVPN, pkill -9 is issued only directly
\* after a pgrep that found a process, which itself is issued only directly
\* after a pkill that did not report "no process matched"; a pgrep that
\* found a process is always followed by pkill -9, one that found none (or
\* could not run) never; and after a pkill that matched nothing neither
\* pgrep nor pkill -9 is issued.
C10_Escalation ==
    \A t \in Handlers :
        LET tr == trace[t] IN
        /\ \A i \in 1..Len(tr) :
             /\ tr[i].cmd = "pkill9" =>
                  /\ i >= 3
                  /\ tr[i-1].cmd = "pgrep" /\ tr[i-1].out = "found"
                  /\ tr[i-2].cmd = "pkill"
             /\ tr[i].cmd = "pgrep" =>
                  /\ i >= 2
                  /\ tr[i-1].cmd = "pkill" /\ tr[i-1].out # "nomatch"
                  /\ IF tr[i].out = "found"
                     THEN IF i = Len(tr) THEN pc[t] = "d_kill9"
                                         ELSE tr[i+1].cmd = "pkill9"
                     ELSE /\ pc[t] # "d_kill9"
                          /\ \A j \in (i+1)..Len(tr) : tr[j].cmd # "pkill9"
             /\ tr[i].cmd = "pkill" =>
                  IF tr[i].out = "nomatch"
                  THEN /\ pc[t] \notin {"d_pgrep", "d_kill9"}
                       /\ \A j \in (i+1)..Len(tr) : ~IsKill(tr[j])
                  ELSE IF i = Len(tr) THEN pc[t] = "d_pgrep"
                                      ELSE tr[i+1].cmd = "pgrep"
        /\ pc[t] = "d_kill9" =>
             tr[Len(tr)].cmd = "pgrep" /\ tr[Len(tr)].out = "found"

\* the disconnect item's disconnectVPN has killed with SIGKILL a tunnel
\* that was still there after SIGTERM
C10_Witness ==
    /\ pc["disc"] = "d_done"
    /\ Len(trace["disc"]) = 4
    /\ trace["disc"][2].out = "ok"
    /\ trace["disc"][3].out = "found"
    /\ trace["disc"][4].cmd = "pkill9" /\ trace["disc"][4].out = "ok"
    /\ procs = EmptyBag

\* C11 as stated: a probe whose two pgrep checks found nothing and whose
\* lsof shows listeners on the configured port, every one of them with a
\* COMMAND that is not of the ssh family, answers "not connected", whatever
\* the other columns of the lsof lines hold.
C11_NonSSHListenerDisconnected ==
    ( /\ probe.recorded
      /\ ~(probe.q.pgrepf /\ probe.ps # EmptyBag)
      /\ ~(probe.q.pgrep /\ probe.ps # EmptyBag)
      /\ probe.port > 0
      /\ Len(probe.q.lsof) >= 2
      /\ \A i \in 2..Len(probe.q.lsof) : ~ContainsSSH(probe.q.lsof[i].COMMAND) )
    => probe.result = FALSE

\* C12 as stated: when a disconnectVPN call of the disconnect item has
\* returned, in a run in which every external command ran successfully, the
\* SOCKS proxy is off on every network service, also when a reload changed
\* the configured service since the connectVPN that turned the proxy on.
C12_NoStaleProxy ==
    (pc["disc"] = "d_done" /\ ~faulted)
        => \A i \in Interfaces : proxy[i] = 0

\* C13 as stated: the port connectVPN passes to the proxy enable is the
\* port it passed to autossh as the dynamic forward, in the same call,
\* also when reloads run while the call is in progress.
C13_OneSnapshot ==
    \A n \in Names :
        \A i \in 2..Len(trace[n]) :
            (trace[n][i].cmd = "proxy_on" /\ trace[n][i].out = "ok")
                => /\ trace[n][i-1].cmd = "spawn"
                   /\ trace[n][i].port = trace[n][i-1].port
                   /\ proxy[trace[n][i].iface] = trace[n][i-1].port

\* the disconnect item's goroutine is between the click and the end of its
\* final updateIcon
DisconnectInFlight == pc["disc"] # "idle"

\* C14 as stated: while a Disconnect started by a click is in flight, from
\* the click to the end of the polling, the disconnect item is disabled,
\* whatever the ticker and the connect goroutines do meanwhile.
C14_DisabledWhileInFlight ==
    (DisconnectInFlight /\ pc["disc"] # "u_icon") => ~discEnabled

\* C15: the wait loop after disconnectVPN makes at most PollLimit probes (the
\* counter of probes that reported "connected" never exceeds it, and the
\* loop is left when it reaches it); a step that stays in the loop is a
\* probe that reported "connected"; the loop is left without counting only
\* by a probe that reported "not connected"; the loop is always left, and
\* the goroutine then publishes the result of a probe of the state it finds
\* and is ready for the next click.
C15_PollingTerminates ==
    /\ [](polls <= PollLimit /\ (pc["disc"] = "poll" => polls < PollLimit))
    /\ [][
          /\ (pc["disc"] = "poll" /\ pc'["disc"] = "poll" /\ polls' # polls)
               => /\ polls' = polls + 1
                  /\ TRUE \in ProbeResults(procs, config)
          /\ (pc["disc"] = "poll" /\ pc'["disc"] # "poll")
               => /\ pc'["disc"] = "u_icon"
                  /\ \/ polls' = polls /\ FALSE \in ProbeResults(procs, config)
                     \/ polls' = PollLimit /\ TRUE \in ProbeResults(procs, config)
          /\ (pc["disc"] = "u_icon" /\ pc'["disc"] # "u_icon")
               => /\ pc'["disc"] = "idle"
                  /\ status' \in ProbeResults(procs, config)
                  /\ discEnabled' = status'
       ]_vars
    /\ (pc["disc"] = "poll") ~> (pc["disc"] = "idle")

\* the wait loop has used all its probes, every one reporting "connected"
C15_Witness ==
    /\ pc["disc"] = "u_icon"
    /\ polls = PollLimit

\* C16: the status the tray shows is always the result of the last probe of
\* updateIcon, and so is the enabled state of the disconnect item whenever
\* no Disconnect is in flight; and the ticker goes on probing whatever the
\* probes answer, so that after the processes have changed a probe of the
\* new state is made and published, and a disconnect item that differs from
\* the status shown is brought in line with it.
C16_ReconcilerContinues ==
    /\ [](status = probe.result)
    /\ [](~DisconnectInFlight => discEnabled = status)
    /\ (probe.ps # procs) ~> (probe.ps = procs)
    /\ (discEnabled # status) ~> (discEnabled = status)

\* a probe whose three queries all failed while a tunnel was running has
\* been published, and the tunnel has since exited
C16_Witness ==
    /\ ~probe.q.pgrepf /\ ~probe.q.pgrep /\ probe.q.lsof = <<>>
    /\ probe.ps # EmptyBag
    /\ procs = EmptyBag
    /\ status = FALSE

\* C17: after a load or reload of a readable file, each of the five
\* optional fields of the active configuration is its default when the file
\* gives "" or 0 for it, and the file's value otherwise, whatever the other
\* fields are; the commands are the file's.
C17_DefaultsPerField ==
    (loaded.recorded /\ loaded.file.readable) =>
        LET raw == loaded.file.raw IN
        /\ raw.AutoSSHPath = "" => config.AutoSSHPath = "/opt/homebrew/bin/autossh"
        /\ raw.AutoSSHPath # "" => config.AutoSSHPath = raw.AutoSSHPath
        /\ raw.LocalPort = 0 => config.LocalPort = 1234
        /\ raw.LocalPort # 0 => config.LocalPort = raw.LocalPort
        /\ raw.Interface = "" => config.Interface = "Wi-Fi"
        /\ raw.Interface # "" => config.Interface = raw.Interface
        /\ raw.ServerOptions.ServerAliveInterval = 0
             => config.ServerOptions.ServerAliveInterval = 10
        /\ raw.ServerOptions.ServerAliveInterval # 0
             => config.ServerOptions.ServerAliveInterval
                  = raw.ServerOptions.ServerAliveInterval
        /\ raw.ServerOptions.ServerAliveCountMax = 0
             => config.ServerOptions.ServerAliveCountMax = 3
        /\ raw.ServerOptions.ServerAliveCountMax # 0
             => config.ServerOptions.ServerAliveCountMax
                  = raw.ServerOptions.ServerAliveCountMax
        /\ config.Commands = raw.Commands

\* a reload of a file that gives the path, the interface and the keepalive
\* count but neither the port nor the keepalive interval
C17_Witness ==
    /\ loaded.recorded /\ loaded.op = "reload" /\ loaded.file.readable
    /\ loaded.file.raw.AutoSSHPath = UserPath
    /\ loaded.file.raw.LocalPort = 0
    /\ loaded.file.raw.Interface = UserInterface
    /\ loaded.file.raw.ServerOptions.ServerAliveInterval = 0
    /\ loaded.file.raw.ServerOptions.ServerAliveCountMax = 5
    /\ config = RawConfig(UserPath, 1234, UserInterface, 10, 5, <<Office>>)

\* C18: after a reload that failed the active configuration is the one
\* that was active before it, and nothing else of the program's state has
\* changed with it; and the active configuration is never nil.
C18_FailedReloadKeepsConfig ==
    /\ [](config # NilConfig)
    /\ []((loaded.recorded /\ loaded.op = "reload" /\ ~loaded.file.readable)
            => config = loaded.before)
    /\ [][(loaded' # loaded /\ ~loaded'.file.readable)
             => UNCHANGED <<config, menuItems, discEnabled, status, procs, proxy,
                            pc, res, modTime, lastModTime>>]_vars

\* a reload has failed after a successful one, and the configuration of the
\* successful one is active
C18_Witness ==
    /\ loaded.recorded /\ loaded.op = "reload" /\ ~loaded.file.readable
    /\ config = loaded.before
    /\ config.LocalPort = 1080

\* C19: a watcher calls reloadConfiguration at most once; it does so in a
\* tick in which the file's modification time is after the one it recorded
\* at its start, and returns with that; while it goes on watching it has
\* reloaded nothing; a watcher that returned on the deadline has reloaded
\* nothing; and every watcher returns.
C19_WatcherTerminates ==
    /\ [](wreloads <= 1)
    /\ [](wpc = "changed" <=> wreloads = 1)
    /\ [][
          /\ (wpc = "watching" /\ wpc' = "changed")
               => (modTime > lastModTime /\ wreloads' = 1)
          /\ (wpc = "watching" /\ wpc' = "watching")
               => UNCHANGED wreloads
          /\ (wpc = "watching" /\ wpc' = "timeout")
               => UNCHANGED <<config, loaded, wreloads>>
       ]_vars
    /\ (wpc = "watching") ~> (wpc \in {"changed", "timeout"})

\* a watcher that started when os.Stat failed has reloaded after the file
\* was written twice, and has returned
C19_Witness ==
    /\ wpc = "changed"
    /\ wreloads = 1
    /\ lastModTime = 0
    /\ modTime = MaxModTime

\* C20 as stated: in the active configuration the keepalive interval and
\* the keepalive count are positive and the local port is in 1..65535,
\* whether it comes from loadConfig at startup, from a reload or from the
\* fallback of main.
C20_ValidConfig ==
    /\ config.ServerOptions.ServerAliveInterval > 0
    /\ config.ServerOptions.ServerAliveCountMax > 0
    /\ config.LocalPort \in 1..65535

\* C21 as stated: once Quit has been handled and the exit hook has finished
\* (the process has ended), no autossh started by the application is left
\* and no network service has the SOCKS proxy the application set still on,
\* whatever a connect goroutine did meanwhile, provided that every external
\* command ran.
C21_QuitDisconnects ==
    (pc["quit"] = "exited" /\ ~faulted)
        => (procs = EmptyBag /\ \A i \in Interfaces : proxy[i] = 0)

====
